---------------------------- MODULE Spec2Model ----------------------------
(***************************************************************************)
(* Model of src/src/preprocessing/compute_dem_derivatives.py: the striped  *)
(* (block-streaming) computation of the DEM derivatives and the catalog    *)
(* driver main().                                                          *)
(*                                                                         *)
(* Two specifications share the module:                                    *)
(*   Spec      one in-house stage (compute_pisos, compute_curvatura,       *)
(*             compute_tpi, compute_twi) run stripe by stripe over a small *)
(*             raster, pixel values included;                              *)
(*   SpecOrch  main(): the eight catalog entries over a file system, run   *)
(*             after run.                                                  *)
(*                                                                         *)
(* Floating point values are records [k, n, d]: k = "fin" is the rational  *)
(* n/d in lowest terms (d > 0), k = "nan" is NaN, k = "inf" is +Infinity   *)
(* (n = 1) or -Infinity (n = -1), and k = "lnq" is the finite real         *)
(* ln(d / tan(n/10 degrees)) that compute_twi produces.  Arithmetic is     *)
(* exact; rounding and overflow of the binary formats are not modelled.    *)
(***************************************************************************)
EXTENDS Integers, Sequences, FiniteSets, TLC

(***************************************************************************)
(* Bounds of the model.                                                    *)
(***************************************************************************)
MaxRows   == 3      \* rows of a raster enumerated cell by cell: 1..MaxRows
MaxCells  == 3      \* rows * cols of a raster enumerated cell by cell
MaxBlock  == 2      \* stripe height (block / block_size): 1..MaxBlock
MaxRadius == 2      \* TPI radius: 0..MaxRadius (and the negative -1)
MaxRuns   == 2      \* runs of main() in a row

(***************************************************************************)
(* Program constants.                                                      *)
(***************************************************************************)
NODATA_NUM == -9999         \* NODATA = -9999.0
CELL_SIZE  == 30            \* cell_size = abs(gt[1])  # 30 m
PISOS_NODATA == 0           \* out_band.SetNoDataValue(0)

Max(a, b) == IF a >= b THEN a ELSE b
Min(a, b) == IF a <= b THEN a ELSE b
Abs(a)    == IF a < 0 THEN -a ELSE a

RECURSIVE Gcd(_, _)
Gcd(a, b) == IF b = 0 THEN a ELSE Gcd(b, a % b)

(***************************************************************************)
(* Floating point values.                                                  *)
(***************************************************************************)
Rat(n, d) ==
    LET s == IF d < 0 THEN -1 ELSE 1
        g == Gcd(Abs(n), Abs(d))
    IN  [k |-> "fin", n |-> (s * n) \div g, d |-> (s * d) \div g]

Fin(n)  == [k |-> "fin", n |-> n, d |-> 1]
NaN     == [k |-> "nan", n |-> 0, d |-> 1]
PosInf  == [k |-> "inf", n |-> 1, d |-> 1]
NegInf  == [k |-> "inf", n |-> -1, d |-> 1]
NODATA  == Fin(NODATA_NUM)

IsNan(v)    == v.k = "nan"
IsInf(v)    == v.k = "inf"
IsFinite(v) == v.k \in {"fin", "lnq"}

Sign(n) == IF n > 0 THEN 1 ELSE IF n < 0 THEN -1 ELSE 0

\* a + b in IEEE arithmetic (a, b of kind fin, nan or inf)
FAdd(a, b) ==
    IF IsNan(a) \/ IsNan(b) THEN NaN
    ELSE IF IsInf(a) /\ IsInf(b) THEN (IF a.n = b.n THEN a ELSE NaN)
    ELSE IF IsInf(a) THEN a
    ELSE IF IsInf(b) THEN b
    ELSE Rat(a.n * b.d + b.n * a.d, a.d * b.d)

\* a * b in IEEE arithmetic
FMul(a, b) ==
    IF IsNan(a) \/ IsNan(b) THEN NaN
    ELSE IF IsInf(a) \/ IsInf(b)
         THEN (IF Sign(a.n) * Sign(b.n) = 0 THEN NaN
               ELSE IF Sign(a.n) * Sign(b.n) > 0 THEN PosInf ELSE NegInf)
    ELSE Rat(a.n * b.n, a.d * b.d)

FNeg(a) == IF IsNan(a) THEN NaN ELSE [a EXCEPT !.n = -a.n]
FSub(a, b) == FAdd(a, FNeg(b))

\* a < b, a >= b, a = b as IEEE comparisons (false when either is NaN)
FLt(a, b) ==
    IF IsNan(a) \/ IsNan(b) THEN FALSE
    ELSE IF IsInf(a) THEN (a.n < 0 /\ ~(IsInf(b) /\ b.n < 0))
    ELSE IF IsInf(b) THEN b.n > 0
    ELSE a.n * b.d < b.n * a.d
FEq(a, b) == ~IsNan(a) /\ ~IsNan(b) /\ a = b
FGe(a, b) == ~IsNan(a) /\ ~IsNan(b) /\ ~FLt(a, b)

(***************************************************************************)
(* The stripe loop: range(0, rows, block) and the windows of one stripe    *)
(* with halo pad (pad = 1 in compute_curvatura, radius in compute_tpi, 0   *)
(* in compute_pisos and compute_twi).                                      *)
(***************************************************************************)
\* faulty variant: the loop steps one row too far
RangeStepSkipsRow(y, B) == y + B + 1

\* the next value of range(0, rows, block) after y
RangeStep(y, B) == y + B

\* faulty variant: the halo is added to the start of the window
YStartPastBlock(y, pad) == y + pad
YStart(y, pad)        == Max(y - pad, 0)
\* faulty variant: the read window's end forgets the stripe height
YEndNoBlock(y, B, pad, R) == Min(y + pad, R)
\* faulty variant: the window is read down to the last row of the raster
YEndWholeRaster(y, B, pad, R) == R
YEnd(y, B, pad, R)    == Min(y + B + pad, R)
WinH(y, B, R)         == Min(B, R - y)
TrimTop(y, pad)       == y - YStart(y, pad)
TrimBot(y, B, pad, R) == YEnd(y, B, pad, R) - Min(y + B, R)

\* arr[a:b] of Python for a sequence-like function over 0..h-1, with the
\* negative indices counted from the end and the bounds clipped.
PyIndex(i, h) == IF i < 0 THEN Max(h + i, 0) ELSE Min(i, h)
PySlice(arr, h, a, b) ==
    LET lo == PyIndex(a, h)
        hi == PyIndex(b, h)
        n  == Max(hi - lo, 0)
    IN  [i \in 0..(n - 1) |-> arr[lo + i]]
PySliceLen(h, a, b) == Max(PyIndex(b, h) - PyIndex(a, h), 0)

\* faulty variant: curv[trim_top:-trim_bot] also when trim_bot is 0
TrimAlways(arr, h, trim_top, trim_bot) ==
    PySlice(arr, h, trim_top, -trim_bot)

\* curv[trim_top:-trim_bot] if trim_bot > 0 else curv[trim_top:]
Trim(arr, h, trim_top, trim_bot) ==
    IF trim_bot > 0 THEN PySlice(arr, h, trim_top, -trim_bot)
    ELSE PySlice(arr, h, trim_top, h)
TrimLen(h, trim_top, trim_bot) ==
    IF trim_bot > 0 THEN PySliceLen(h, trim_top, -trim_bot)
    ELSE PySliceLen(h, trim_top, h)

(***************************************************************************)
(* Rasters are functions [0..rows-1 -> [0..cols-1 -> value]].              *)
(***************************************************************************)
Clamp(i, lo, hi) == Max(lo, Min(i, hi))

\* band.ReadAsArray(0, y0, cols, h)
ReadAsArray(grid, y0, h) == [i \in 0..(h - 1) |-> grid[y0 + i]]

\* nodata_mask = (elev == NODATA)
NodataMask(win) ==
    [i \in DOMAIN win |-> [j \in DOMAIN win[i] |-> FEq(win[i][j], NODATA)]]

\* faulty variant: NoData cells are not marked as missing
NanMaskedOff(win) == win

\* elev[nodata_mask] = np.nan
NanMasked(win) ==
    [i \in DOMAIN win |->
        [j \in DOMAIN win[i] |->
            IF FEq(win[i][j], NODATA) THEN NaN ELSE win[i][j]]]

(***************************************************************************)
(* Kernels: functions from the offsets <<dy, dx>> to rational weights.     *)
(***************************************************************************)
Offsets(r) == (-r..r) \X (-r..r)

\* faulty variant: the sign of the Laplacian is turned round
CurvKernelNegated ==
    [o \in Offsets(1) |->
        IF o = <<0, 0>> THEN Rat(4, CELL_SIZE * CELL_SIZE)
        ELSE IF o[1] = 0 \/ o[2] = 0 THEN Rat(-1, CELL_SIZE * CELL_SIZE)
        ELSE Fin(0)]

\* faulty variant: the two horizontal neighbours do not weigh the same
CurvKernelLopsided ==
    [o \in Offsets(1) |->
        IF o = <<0, 0>> THEN Rat(-4, CELL_SIZE * CELL_SIZE)
        ELSE IF o = <<0, -1>> THEN Rat(2, CELL_SIZE * CELL_SIZE)
        ELSE IF o[2] = 0 THEN Rat(1, CELL_SIZE * CELL_SIZE)
        ELSE Fin(0)]

\* np.array([[0,1,0],[1,-4,1],[0,1,0]]) / (cell_size ** 2)
CurvKernel ==
    [o \in Offsets(1) |->
        IF o = <<0, 0>> THEN Rat(-4, CELL_SIZE * CELL_SIZE)
        ELSE IF o[1] = 0 \/ o[2] = 0 THEN Rat(1, CELL_SIZE * CELL_SIZE)
        ELSE Fin(0)]

\* faulty variant: the centre cell belongs to the neighbourhood
InDisc(o, r) == o[1] * o[1] + o[2] * o[2] <= r * r

\* (dist <= radius) & (dist > 0), dist = sqrt(x**2 + y**2)
InAnnulus(o, r) ==
    LET d2 == o[1] * o[1] + o[2] * o[2] IN d2 > 0 /\ d2 <= r * r
\* faulty variant: the divisor counts the centre cell too
TpiCountWithCentre(r) == Cardinality({o \in Offsets(r) : InAnnulus(o, r)}) + 1

\* kernel.sum() before the normalisation
TpiCount(r) == Cardinality({o \in Offsets(r) : InAnnulus(o, r)})
\* kernel /= kernel.sum(): 1/count inside the annulus and 0/count outside;
\* with radius 0 the sum is 0 and the one cell of the kernel becomes 0/0, a
\* NaN, which convolve leaves out like a zero weight
TpiKernel(r) ==
    LET count  == TpiCount(r)
        weight == IF count = 0 THEN NaN ELSE Rat(1, count)
        zero   == IF count = 0 THEN NaN ELSE Fin(0)
    IN  [o \in Offsets(r) |-> IF InAnnulus(o, r) THEN weight ELSE zero]

\* One kernel cell's share of the output at pixel (i, j) of the h x w array
\* A: scipy.ndimage visits only the cells whose weight is not zero; convolve
\* pairs weights[dy, dx] with input[i - dy, j - dx]; mode="nearest" repeats
\* the array's edge cells.
\* faulty variant: a missing cell is left out of the sum
TermSkipsNan(K, dy, dx, A, h, w, i, j) ==
    IF IsNan(A[Clamp(i - dy, 0, h - 1)][Clamp(j - dx, 0, w - 1)]) THEN Fin(0)
    ELSE FMul(K[<<dy, dx>>], A[Clamp(i - dy, 0, h - 1)][Clamp(j - dx, 0, w - 1)])

Term(K, dy, dx, A, h, w, i, j) ==
    FMul(K[<<dy, dx>>], A[Clamp(i - dy, 0, h - 1)][Clamp(j - dx, 0, w - 1)])

\* the sum over the kernel cells (dy, dx..r) of one kernel row
RECURSIVE RowSum(_, _, _, _, _, _, _, _, _)
RowSum(dy, dx, r, K, A, h, w, i, j) ==
    IF dx > r THEN Fin(0)
    ELSE IF K[<<dy, dx>>].n = 0 THEN RowSum(dy, dx + 1, r, K, A, h, w, i, j)
    ELSE FAdd(Term(K, dy, dx, A, h, w, i, j),
              RowSum(dy, dx + 1, r, K, A, h, w, i, j))

\* the sum over the kernel rows dy..r
RECURSIVE WeightedSum(_, _, _, _, _, _, _, _)
WeightedSum(dy, r, K, A, h, w, i, j) ==
    IF dy > r THEN Fin(0)
    ELSE FAdd(RowSum(dy, -r, r, K, A, h, w, i, j),
              WeightedSum(dy + 1, r, K, A, h, w, i, j))

\* scipy.ndimage.convolve(A, K, mode="nearest") of an h x w array, K of
\* radius r
Convolve(A, h, w, K, r) ==
    [i \in 0..(h - 1) |->
        [j \in 0..(w - 1) |-> WeightedSum(-r, r, K, A, h, w, i, j)]]

(***************************************************************************)
(* compute_pisos: one stripe.                                              *)
(***************************************************************************)
\* faulty variant: the second range ends one metre early
PISOS_SHIFTED ==
    << <<0, 500, 1>>, <<500, 2299, 2>>, <<2300, 3500, 3>>,
       <<3500, 4000, 4>>, <<4000, 4800, 5>>, <<4800, 99999, 6>> >>

\* PISOS_SIMPLE: (min_alt, max_alt, code)
PISOS_SIMPLE ==
    << <<0, 500, 1>>, <<500, 2300, 2>>, <<2300, 3500, 3>>,
       <<3500, 4000, 4>>, <<4000, 4800, 5>>, <<4800, 99999, 6>> >>

\* faulty variant: the upper bound of a range belongs to the range
RECURSIVE ApplyPisosInclusive(_, _, _)
ApplyPisosInclusive(e, k, result) ==
    IF k > Len(PISOS_SIMPLE) THEN result
    ELSE LET row  == PISOS_SIMPLE[k]
             mask == FGe(e, Fin(row[1])) /\ FGe(Fin(row[2]), e)
                     /\ ~FEq(e, NODATA)
         IN  ApplyPisosInclusive(e, k + 1, IF mask THEN row[3] ELSE result)

\* the loop "for lo, hi, code in PISOS_SIMPLE: result[mask] = code" on one
\* cell, rows k..6 of the table applied in order to the running result
RECURSIVE ApplyPisos(_, _, _)
ApplyPisos(e, k, result) ==
    IF k > Len(PISOS_SIMPLE) THEN result
    ELSE LET row  == PISOS_SIMPLE[k]
             mask == FGe(e, Fin(row[1])) /\ FLt(e, Fin(row[2]))
                     /\ ~FEq(e, NODATA)
         IN  ApplyPisos(e, k + 1, IF mask THEN row[3] ELSE result)

\* result = zeros; table loop; result[elev == NODATA] = 0
PisosCell(e) ==
    IF FEq(e, NODATA) THEN Fin(PISOS_NODATA) ELSE Fin(ApplyPisos(e, 1, 0))

PisosStripe(grid, R, W, B, y) ==
    LET win_h == WinH(y, B, R)
        elev  == ReadAsArray(grid, y, win_h)
    IN  [i \in 0..(win_h - 1) |-> [j \in 0..(W - 1) |-> PisosCell(elev[i][j])]]

(***************************************************************************)
(* compute_curvatura: one stripe.                                          *)
(***************************************************************************)
CurvPad == 1        \* y_off - 1, y_off + block + 1

\* nodata_out = np.isnan(curv); curv[nodata_out] = NODATA
CurvClean(v) == IF IsNan(v) THEN NODATA ELSE v

CurvStripe(grid, R, W, B, y) ==
    LET y_start == YStart(y, CurvPad)
        y_end   == YEnd(y, B, CurvPad, R)
        h       == y_end - y_start
        elev    == NanMasked(ReadAsArray(grid, y_start, h))
        curv    == Convolve(elev, h, W, CurvKernel, 1)
        trimmed == Trim(curv, h, TrimTop(y, CurvPad), TrimBot(y, B, CurvPad, R))
    IN  [i \in DOMAIN trimmed |->
            [j \in 0..(W - 1) |-> CurvClean(trimmed[i][j])]]

(***************************************************************************)
(* compute_tpi: one stripe (radius >= 0).                                  *)
(***************************************************************************)
\* faulty variant: the halo is one row short of the kernel radius
TpiPadShort(radius) == radius - 1

\* pad = radius
TpiPad(radius) == radius

\* tpi[nodata_mask] = NODATA; np.where(np.isnan(tpi), NODATA, tpi)
TpiClean(v, masked) == IF masked \/ IsNan(v) THEN NODATA ELSE v

TpiStripe(grid, R, W, B, radius, y) ==
    LET pad      == TpiPad(radius)
        y_start  == YStart(y, pad)
        y_end    == YEnd(y, B, pad, R)
        h        == y_end - y_start
        raw      == ReadAsArray(grid, y_start, h)
        mask     == NodataMask(raw)
        elev     == NanMasked(raw)
        mean     == Convolve(elev, h, W, TpiKernel(radius), radius)
        tpi      == [i \in 0..(h - 1) |->
                       [j \in 0..(W - 1) |-> FSub(elev[i][j], mean[i][j])]]
        tt       == TrimTop(y, pad)
        tb       == TrimBot(y, B, pad, R)
        tpi_t    == Trim(tpi, h, tt, tb)
        mask_t   == Trim(mask, h, tt, tb)
    IN  [i \in DOMAIN tpi_t |->
            [j \in 0..(W - 1) |-> TpiClean(tpi_t[i][j], mask_t[i][j])]]

(***************************************************************************)
(* compute_twi: one stripe.  Slopes are in degrees.                        *)
(***************************************************************************)
SlopeFloor == Rat(1, 10)        \* np.deg2rad(0.1)

\* faulty variant: the slope is used as read
ClipSlopeOff(s) == s

\* np.clip(slope_rad, np.deg2rad(0.1), None): NaN stays NaN
ClipSlope(s) == IF IsNan(s) THEN NaN ELSE IF FLt(s, SlopeFloor) THEN SlopeFloor ELSE s

\* the sign of np.tan of a finite angle of q degrees, 0 < q <= 180, in
\* binary64: tan(pi/2) = 1.6e16 and tan(pi) = -1.2e-16
TanPositive(q) == FLt(Fin(0), q) /\ ~FLt(Fin(90), q)

\* np.log(sca / np.tan(slope_rad)) for a clipped slope
LogRatio(s) ==
    IF IsNan(s) \/ IsInf(s) THEN NaN            \* tan(nan), tan(inf) are NaN
    ELSE IF TanPositive(s)
         THEN [k |-> "lnq", n |-> (s.n * 10) \div s.d, d |-> CELL_SIZE]
    ELSE NaN                                     \* log of a negative number

\* twi[nodata_mask] = NODATA; np.where(isnan | isinf, NODATA, twi)
TwiClean(v, masked) ==
    IF masked THEN NODATA ELSE IF IsNan(v) \/ IsInf(v) THEN NODATA ELSE v

\* faulty variant: the NoData value of the slope raster is masked as well
TwiCellMasksSlope(e, s) ==
    TwiClean(LogRatio(ClipSlope(s)), FEq(e, NODATA) \/ FEq(s, NODATA))

TwiCell(e, s) == TwiClean(LogRatio(ClipSlope(s)), FEq(e, NODATA))

TwiStripe(grid, slope, R, W, B, y) ==
    LET win_h == WinH(y, B, R)
        elev  == ReadAsArray(grid, y, win_h)
        sl    == ReadAsArray(slope, y, win_h)
    IN  [i \in 0..(win_h - 1) |->
            [j \in 0..(W - 1) |-> TwiCell(elev[i][j], sl[i][j])]]

(***************************************************************************)
(* State.                                                                  *)
(***************************************************************************)
VARIABLES
    \* one stage call, compute_<stage>(dem_ds, ..., output_path)
    stage,      \* which compute_* function runs
    rows,       \* dem_ds.RasterYSize
    cols,       \* dem_ds.RasterXSize
    dem,        \* band 1 of dem_ds
    georef,     \* dem_ds.GetGeoTransform() and dem_ds.GetProjection()
    slope_file, \* the file at slope_path: [exists, data, flushed]
    block,      \* block / block_size (1024 in the program)
    radius,     \* compute_tpi's radius (0 in the other stages)
    spc,        \* where the call is: "call", "loop", "returned", "raised"
    y_off,      \* the loop variable of the stripe loop
    out_file,   \* the file at output_path: [exists, data, flushed]
    nwrites,    \* per row, how many WriteArray calls covered it
    plans,      \* the stripes done so far, one descriptor each
    ops,        \* the calls on the DEM band and the output so far, in order
    exc,        \* the exception that ended the call, or "none"
    \* main()
    opc,        \* "open", "entry", "done", "exited", "crashed"
    entry,      \* the catalog entry main() is at, 1..8
    files,      \* the output directory: name -> "absent", "partial", "complete"
    dem_ok,     \* whether args.input can be opened
    dir_exists, \* whether args.output_dir exists
    force,      \* args.force
    tpi_radius, \* args.tpi_radius
    computed,   \* main's counter
    skipped,    \* main's counter
    log,        \* per entry of this run: "none", "skip", "compute", "fail"
    considered, \* the outputs handed to _skip_or_compute in this run, in order
    written,    \* the outputs whose file this run created anew at its path
    oexc,       \* the exception that ended main(), or "none"
    run,        \* how many runs of main() have started
    prev_done,  \* whether the run before this one reached its summary
    files_start,\* files when this run started
    dir_start   \* dir_exists when this run started

stageVars ==
    <<stage, rows, cols, dem, georef, slope_file, block, radius, spc, y_off,
      out_file, nwrites, plans, ops, exc>>

orchVars ==
    <<opc, entry, files, dem_ok, dir_exists, force, tpi_radius, computed,
      skipped, log, considered, written, oexc, run, prev_done, files_start,
      dir_start>>

vars == <<stageVars, orchVars>>

Stages == {"pisos", "curvatura", "tpi", "twi"}

\* a cell of a created raster no WriteArray has reached
Unwritten == [k |-> "unwritten", n |-> 0, d |-> 1]

\* gdal.UseExceptions() at import time
UseExceptions == TRUE

\* gdal.Open(path): the dataset, None, or a raised RuntimeError
GdalOpen(exists) ==
    IF exists THEN "dataset"
    ELSE IF UseExceptions THEN "RuntimeError" ELSE "None"

(***************************************************************************)
(* Inputs of the stage model.                                              *)
(***************************************************************************)
\* elevations: valid ones and NoData, or valid and infinite ones
ElevSamples == {Fin(0), Fin(1), NODATA}
InfSamples  == {Fin(1), PosInf}

SlopeSamples ==
    << Fin(0), NODATA, Rat(1, 10), Fin(45), Fin(90), Fin(135), NaN, PosInf,
       Fin(-1), NegInf, Rat(1, 20), Rat(1, 5) >>

\* every sample meets every elevation once the raster has MaxCells cells
SlopeShifts ==
    {k * MaxCells : k \in 0..((Len(SlopeSamples) - 1) \div MaxCells)}

Shapes ==
    {s \in (1..MaxRows) \X (1..2) : s[1] * s[2] <= MaxCells}

Grids(R, W) ==
    [0..(R - 1) -> [0..(W - 1) -> ElevSamples]]
        \cup [0..(R - 1) -> [0..(W - 1) -> InfSamples]]

\* elevations around every boundary of the ecological zone table
ZoneSamples ==
    << Fin(-1), Fin(0), Fin(250), Rat(999, 2), Fin(500), Fin(2299),
       Fin(2300), Fin(3000), Rat(6999, 2), Fin(3500), Fin(3999), Fin(4000),
       Fin(4799), Fin(4800), Fin(5000), Fin(99998), Fin(99999), NODATA,
       Fin(100000), NaN, PosInf, NegInf >>

\* elevation rasters for compute_pisos: the zone samples laid out cyclically
\* from the shift-th on
ZoneGrids(R, W) ==
    {[i \in 0..(R - 1) |->
        [j \in 0..(W - 1) |->
            ZoneSamples[((i * W + j + shift) % Len(ZoneSamples)) + 1]]] :
     shift \in 0..(Len(ZoneSamples) - 1)}

\* larger rasters with a regular surface, for the neighbourhood stages: wide
\* and high enough to hold pixels a full kernel radius away from every edge
\* on both sides of a stripe boundary
ProfileShapes ==
    {2 * MaxRadius + 1, 2 * MaxRadius + 2} \X {2 * MaxRadius + 1}

\* a rough surface with pits and peaks and one NoData cell, at (1, 1)
Relief(i, j) ==
    IF i = 1 /\ j = 1 THEN NODATA
    ELSE Fin(10 * ((i * i + j * j * j + i * j) % 7))

\* a flat surface, a ramp rising by the cell size per column, and the rough
\* surface
ProfileGrids(R, W) ==
    { [i \in 0..(R - 1) |-> [j \in 0..(W - 1) |-> Fin(1200)]],
      [i \in 0..(R - 1) |-> [j \in 0..(W - 1) |-> Fin(j * CELL_SIZE)]],
      [i \in 0..(R - 1) |-> [j \in 0..(W - 1) |-> Relief(i, j)]] }

\* the rasters a stage is run on
StageShapes(st) ==
    Shapes \cup (IF st \in {"curvatura", "tpi"} THEN ProfileShapes ELSE {})

StageGrids(st, R, W) ==
    IF <<R, W>> \in Shapes
    THEN Grids(R, W) \cup (IF st = "pisos" THEN ZoneGrids(R, W) ELSE {})
    ELSE ProfileGrids(R, W)

\* slope rasters: the samples laid out cyclically from the shift-th on
SlopeGrid(R, W, shift) ==
    [i \in 0..(R - 1) |->
        [j \in 0..(W - 1) |->
            SlopeSamples[((i * W + j + shift) % Len(SlopeSamples)) + 1]]]

\* georeferences of the DEM: (origin x, pixel width, 0, origin y, 0, pixel
\* height) and the projection; the pixel is 30 m wide
Georefs ==
    { [gt |-> <<200000, CELL_SIZE, 0, 8600000, 0, -CELL_SIZE>>,
       proj |-> "EPSG:32718"],
      [gt |-> <<770000, CELL_SIZE, 0, 8500000, 0, -CELL_SIZE>>,
       proj |-> "EPSG:32719"] }

NoHeader == [xsize |-> 0, ysize |-> 0, gt |-> <<>>, proj |-> ""]

\* faulty variant: width and height are passed in the wrong order
CreateHeaderTransposed(xsize, ysize, g) ==
    [xsize |-> ysize, ysize |-> xsize, gt |-> g.gt, proj |-> g.proj]

\* driver.Create(output_path, cols, rows, 1, ...); SetGeoTransform(gt);
\* SetProjection(dem_ds.GetProjection())
CreateHeader(xsize, ysize, g) ==
    [xsize |-> xsize, ysize |-> ysize, gt |-> g.gt, proj |-> g.proj]

NoFile == [exists |-> FALSE, data |-> <<>>, flushed |-> FALSE,
           hdr |-> NoHeader]

StageInit ==
    /\ stage \in Stages
    /\ \E s \in StageShapes(stage) :
        /\ rows = s[1]
        /\ cols = s[2]
        /\ dem \in StageGrids(stage, s[1], s[2])
        \* the large rasters all carry the first georeference
        /\ georef \in IF s \in Shapes THEN Georefs
                      ELSE {g \in Georefs : g.proj = "EPSG:32718"}
        /\ slope_file \in
             IF stage = "twi"
             THEN {NoFile} \cup
                  {[exists |-> TRUE, data |-> SlopeGrid(s[1], s[2], sh),
                    flushed |-> TRUE,
                    hdr |-> [xsize |-> s[2], ysize |-> s[1],
                             gt |-> georef.gt, proj |-> georef.proj]] :
                   sh \in SlopeShifts}
             ELSE {NoFile}
    /\ block \in 1..MaxBlock
    /\ radius \in IF stage = "tpi" THEN {-1} \cup (0..MaxRadius) ELSE {0}
    /\ spc = "call"
    /\ y_off = 0
    /\ out_file = NoFile
    /\ nwrites = <<>>
    /\ plans = <<>>
    /\ ops = <<>>
    /\ exc = "none"

\* no stage call in progress
StageIdle ==
    /\ stage = "none"
    /\ rows = 0
    /\ cols = 0
    /\ dem = <<>>
    /\ georef = <<>>
    /\ slope_file = NoFile
    /\ block = 0
    /\ radius = 0
    /\ spc = "idle"
    /\ y_off = 0
    /\ out_file = NoFile
    /\ nwrites = <<>>
    /\ plans = <<>>
    /\ ops = <<>>
    /\ exc = "none"

(***************************************************************************)
(* The stage call, step by step.                                           *)
(***************************************************************************)
\* faulty variant: the TPI halo is half the radius
PadHalved == CASE stage = "curvatura" -> CurvPad
               [] stage = "tpi" -> radius \div 2
               [] OTHER -> 0

\* the halo of the stage's read window
Pad == CASE stage = "curvatura" -> CurvPad
         [] stage = "tpi" -> TpiPad(radius)
         [] OTHER -> 0

\* the stripe handed to out_band.WriteArray(..., 0, y_off)
StripeArray(y) ==
    CASE stage = "pisos"     -> PisosStripe(dem, rows, cols, block, y)
      [] stage = "curvatura" -> CurvStripe(dem, rows, cols, block, y)
      [] stage = "tpi"       -> TpiStripe(dem, rows, cols, block, radius, y)
      [] stage = "twi"       -> TwiStripe(dem, slope_file.data, rows, cols, block, y)

\* the windows of the stripe at y as the loop body computes them
BlockPlan(y, nrows) ==
    [write_start |-> y,
     write_count |-> WinH(y, block, rows),
     written     |-> nrows,
     read_start  |-> YStart(y, Pad),
     read_end    |-> YEnd(y, block, Pad, rows),
     trim_top    |-> TrimTop(y, Pad),
     trim_bot    |-> TrimBot(y, block, Pad, rows)]

\* out_band.WriteArray(arr, 0, y): the rows of arr replace rows y.. of data
WriteArray(data, arr, y) ==
    [i \in DOMAIN data |->
        IF i - y \in DOMAIN arr THEN arr[i - y] ELSE data[i]]

\* one call on the DEM band or on the output: its name, first row and rows
Op(name, y, n) == [op |-> name, y |-> y, n |-> n]

\* compute_twi opens the slope raster before it creates its output
SlopeOpen == IF stage = "twi" THEN GdalOpen(slope_file.exists) ELSE "dataset"

\* the prologue of compute_*: (open the slope,) driver.Create(output_path)
StageCreate ==
    /\ spc = "call"
    /\ IF SlopeOpen = "dataset"
       THEN /\ out_file' = [exists |-> TRUE, flushed |-> FALSE,
                            hdr |-> CreateHeader(cols, rows, georef),
                            data |-> [i \in 0..(rows - 1) |->
                                        [j \in 0..(cols - 1) |-> Unwritten]]]
            /\ nwrites' = [i \in 0..(rows - 1) |-> 0]
            /\ ops' = Append(ops, Op("Create", 0, rows))
            /\ spc' = "loop"
            /\ exc' = "none"
       ELSE /\ spc' = "raised"
            /\ exc' = IF SlopeOpen = "None" THEN "FileNotFoundError"
                      ELSE "RuntimeError"
            /\ UNCHANGED <<out_file, nwrites, ops>>
    /\ UNCHANGED <<stage, rows, cols, dem, georef, slope_file, block, radius,
                   y_off, plans>>
    /\ UNCHANGED orchVars

\* one iteration of "for y_off in range(0, rows, block)"
StageStripe ==
    /\ spc = "loop"
    /\ y_off < rows
    /\ IF stage = "tpi" /\ radius < 0
       THEN \* the kernel is empty: the read of a window without rows fails,
            \* or else convolve raises "filter weights array has incorrect
            \* shape"
            /\ spc' = "raised"
            /\ exc' = "RuntimeError"
            /\ ops' = Append(ops, Op("ReadAsArray", YStart(y_off, Pad),
                                     YEnd(y_off, block, Pad, rows)
                                         - YStart(y_off, Pad)))
            /\ UNCHANGED <<out_file, nwrites, y_off, plans>>
       ELSE LET arr == StripeArray(y_off) IN
            /\ ops' = ops \o
                 << Op("ReadAsArray", YStart(y_off, Pad),
                       YEnd(y_off, block, Pad, rows) - YStart(y_off, Pad)),
                    Op("WriteArray", y_off, Cardinality(DOMAIN arr)) >>
            /\ out_file' = [out_file EXCEPT
                              !.data = WriteArray(out_file.data, arr, y_off)]
            /\ nwrites' = [i \in DOMAIN nwrites |->
                             IF i - y_off \in DOMAIN arr
                             THEN nwrites[i] + 1 ELSE nwrites[i]]
            /\ plans' = Append(plans,
                               BlockPlan(y_off, Cardinality(DOMAIN arr)))
            /\ y_off' = RangeStep(y_off, block)
            /\ UNCHANGED <<spc, exc>>
    /\ UNCHANGED <<stage, rows, cols, dem, georef, slope_file, block, radius>>
    /\ UNCHANGED orchVars

\* faulty variant: the output is flushed and closed before the loop is over
StageFlushEarly ==
    /\ spc = "loop"
    /\ out_file' = [out_file EXCEPT !.flushed = TRUE]
    /\ ops' = Append(ops, Op("FlushCache", 0, 0))
    /\ spc' = "returned"
    /\ UNCHANGED <<stage, rows, cols, dem, georef, slope_file, block, radius,
                   y_off, nwrites, plans, exc>>
    /\ UNCHANGED orchVars

\* out_band.FlushCache(); out_ds = None
StageFlush ==
    /\ spc = "loop"
    /\ y_off >= rows
    /\ out_file' = [out_file EXCEPT !.flushed = TRUE]
    /\ ops' = Append(ops, Op("FlushCache", 0, 0))
    /\ spc' = "returned"
    /\ UNCHANGED <<stage, rows, cols, dem, georef, slope_file, block, radius,
                   y_off, nwrites, plans, exc>>
    /\ UNCHANGED orchVars

(***************************************************************************)
(* main(): the catalog over the output directory.                          *)
(***************************************************************************)
\* faulty variant: the TWI block comes first, before the slope it reads
CatalogTwiFirst ==
    << "twi", "pendiente", "rugosidad", "altitud", "pisos_ecologicos",
       "aspecto", "curvatura", "tpi" >>

\* the order of the eight "if _skip_or_compute(...)" blocks of main()
Catalog ==
    << "pendiente", "rugosidad", "altitud", "pisos_ecologicos", "aspecto",
       "curvatura", "tpi", "twi" >>

Names == {Catalog[i] : i \in 1..Len(Catalog)}

\* --tpi-radius: type=int, default 10, any sign accepted
OrchRadii == {-1, 10}

\* faulty variant: the force flag is ignored
SkipOrComputeNoForce(isfile, force_flag) == isfile

\* faulty variant: the force flag is tested the wrong way round
SkipOrComputeInverted(isfile, force_flag) == isfile /\ force_flag

\* _skip_or_compute(path, force): True means skip
SkipOrCompute(isfile, force_flag) == isfile /\ ~force_flag

\* faulty variant: only a completely written file counts
IsFileComplete(n) == files[n] = "complete"

\* os.path.isfile(path)
IsFile(n) == files[n] # "absent"

\* faulty variant: the output directory is made before the DEM is checked
DirBeforeOpen(opened, dir) == TRUE

\* os.makedirs(args.output_dir, exist_ok=True) comes after the check of the
\* opened DEM
DirAfterOpen(opened, dir) == (opened = "dataset") \/ dir

\* a compute stage that did not return: it raised before its output was
\* created, the file at the path left as it was, or after, a new unfinished
\* file in its place; or the process was ended while the stage was writing
FailedResults(n) ==
    {[ok |-> FALSE, file |-> files[n], created |-> FALSE,
      exc |-> "RuntimeError"],
     [ok |-> FALSE, file |-> "partial", created |-> TRUE,
      exc |-> "RuntimeError"],
     [ok |-> FALSE, file |-> "partial", created |-> TRUE,
      exc |-> "KeyboardInterrupt"]}

\* faulty variant: a stage that returns has not written its output
ComputeResultsNothingWritten(n) ==
    {[ok |-> TRUE, file |-> files[n], created |-> FALSE, exc |-> "none"]}
    \cup FailedResults(n)

\* How the compute stage of entry n can end: whether it returned, the state
\* it leaves the file at output_path in, and the exception it raised.  Any
\* stage can fail on its I/O (GDAL raises RuntimeError), before or after the
\* output was created; compute_twi fails when the slope cannot be opened and
\* compute_tpi fails in its first stripe when the radius is negative.
ComputeResults(n) ==
    IF n = "twi" /\ GdalOpen(IsFile("pendiente")) # "dataset"
    THEN {[ok |-> FALSE, file |-> files[n], created |-> FALSE,
           exc |-> IF GdalOpen(IsFile("pendiente")) = "None"
                   THEN "FileNotFoundError" ELSE "RuntimeError"]}
    ELSE IF n = "tpi" /\ tpi_radius < 0
    THEN FailedResults(n)
    ELSE {[ok |-> TRUE, file |-> "complete", created |-> TRUE,
           exc |-> "none"]}
         \cup FailedResults(n)

\* what an exception raised by a compute stage does to main(): nothing
\* catches it, the run ends
AfterFailure == "crashed"

NoLog == [i \in 1..Len(Catalog) |-> "none"]

OrchInit ==
    /\ opc = "open"
    /\ entry = 1
    /\ dir_exists \in BOOLEAN
    /\ files \in [Names -> {"absent", "complete"}]
    /\ dir_exists \/ \A n \in Names : files[n] = "absent"
    /\ dem_ok \in BOOLEAN
    /\ force \in BOOLEAN
    /\ tpi_radius \in OrchRadii
    /\ computed = 0
    /\ skipped = 0
    /\ log = NoLog
    /\ considered = <<>>
    /\ written = {}
    /\ oexc = "none"
    /\ run = 1
    /\ prev_done = FALSE
    /\ files_start = files
    /\ dir_start = dir_exists

\* main() is not running
OrchIdle ==
    /\ opc = "idle"
    /\ entry = 0
    /\ dir_exists = FALSE
    /\ files = <<>>
    /\ dem_ok = FALSE
    /\ force = FALSE
    /\ tpi_radius = 0
    /\ computed = 0
    /\ skipped = 0
    /\ log = <<>>
    /\ considered = <<>>
    /\ written = {}
    /\ oexc = "none"
    /\ run = 0
    /\ prev_done = FALSE
    /\ files_start = <<>>
    /\ dir_start = FALSE

\* dem_ds = gdal.Open(args.input); if dem_ds is None: sys.exit(1);
\* os.makedirs(args.output_dir, exist_ok=True)
MainOpen ==
    /\ opc = "open"
    /\ LET opened == GdalOpen(dem_ok) IN
        /\ opc' = CASE opened = "dataset" -> "entry"
                    [] opened = "None"    -> "exited"
                    [] OTHER              -> "crashed"
        /\ oexc' = CASE opened = "dataset" -> "none"
                     [] opened = "None"    -> "SystemExit"
                     [] OTHER              -> "RuntimeError"
        /\ dir_exists' = DirAfterOpen(opened, dir_exists)
    /\ UNCHANGED <<entry, files, dem_ok, force, tpi_radius, computed, skipped,
                   log, considered, written, run, prev_done, files_start,
                   dir_start>>
    /\ UNCHANGED stageVars

\* faulty variant: "computed += 1" stands after the if/else, so a skipped
\* entry is counted twice
MainEntryCountsSkippedTwice ==
    /\ opc = "entry"
    /\ considered' = Append(considered, Catalog[entry])
    /\ LET n == Catalog[entry] IN
        IF SkipOrCompute(IsFile(n), force)
        THEN /\ skipped' = skipped + 1
             /\ computed' = computed + 1
             /\ log' = [log EXCEPT ![entry] = "skip"]
             /\ opc' = IF entry = Len(Catalog) THEN "done" ELSE "entry"
             /\ entry' = IF entry = Len(Catalog) THEN entry ELSE entry + 1
             /\ UNCHANGED <<files, oexc, written>>
        ELSE \E r \in ComputeResults(n) :
             /\ files' = [files EXCEPT ![n] = r.file]
             /\ written' = IF r.created THEN written \cup {n} ELSE written
             /\ IF r.ok
                THEN /\ computed' = computed + 1
                     /\ log' = [log EXCEPT ![entry] = "compute"]
                     /\ opc' = IF entry = Len(Catalog) THEN "done" ELSE "entry"
                     /\ entry' = IF entry = Len(Catalog) THEN entry
                                 ELSE entry + 1
                     /\ UNCHANGED oexc
                ELSE /\ log' = [log EXCEPT ![entry] = "fail"]
                     /\ opc' = AfterFailure
                     /\ oexc' = r.exc
                     /\ UNCHANGED <<computed, entry>>
             /\ UNCHANGED skipped
    /\ UNCHANGED <<dem_ok, dir_exists, force, tpi_radius, run, prev_done,
                   files_start, dir_start>>
    /\ UNCHANGED stageVars

\* one "if _skip_or_compute(...): skipped += 1 else: compute_*(); computed += 1"
MainEntry ==
    /\ opc = "entry"
    /\ considered' = Append(considered, Catalog[entry])
    /\ LET n == Catalog[entry] IN
        IF SkipOrCompute(IsFile(n), force)
        THEN /\ skipped' = skipped + 1
             /\ log' = [log EXCEPT ![entry] = "skip"]
             /\ opc' = IF entry = Len(Catalog) THEN "done" ELSE "entry"
             /\ entry' = IF entry = Len(Catalog) THEN entry ELSE entry + 1
             /\ UNCHANGED <<files, computed, oexc, written>>
        ELSE \E r \in ComputeResults(n) :
             /\ files' = [files EXCEPT ![n] = r.file]
             /\ written' = IF r.created THEN written \cup {n} ELSE written
             /\ IF r.ok
                THEN /\ computed' = computed + 1
                     /\ log' = [log EXCEPT ![entry] = "compute"]
                     /\ opc' = IF entry = Len(Catalog) THEN "done" ELSE "entry"
                     /\ entry' = IF entry = Len(Catalog) THEN entry
                                 ELSE entry + 1
                     /\ UNCHANGED oexc
                ELSE /\ log' = [log EXCEPT ![entry] = "fail"]
                     /\ opc' = AfterFailure
                     /\ oexc' = r.exc
                     /\ UNCHANGED <<computed, entry>>
             /\ UNCHANGED skipped
    /\ UNCHANGED <<dem_ok, dir_exists, force, tpi_radius, run, prev_done,
                   files_start, dir_start>>
    /\ UNCHANGED stageVars

\* the script is started again, with any arguments; in between, someone may
\* have removed one of the outputs
MainRerun ==
    /\ opc \in {"done", "exited", "crashed"}
    /\ run < MaxRuns
    /\ run' = run + 1
    /\ prev_done' = (opc = "done")
    /\ opc' = "open"
    /\ entry' = 1
    /\ computed' = 0
    /\ skipped' = 0
    /\ log' = NoLog
    /\ considered' = <<>>
    /\ written' = {}
    /\ oexc' = "none"
    /\ force' \in BOOLEAN
    /\ tpi_radius' \in OrchRadii
    /\ dem_ok' \in BOOLEAN
    /\ \E gone \in SUBSET Names :
        /\ Cardinality(gone) <= 1
        /\ files' = [n \in Names |-> IF n \in gone THEN "absent" ELSE files[n]]
    /\ files_start' = files'
    /\ dir_start' = dir_exists
    /\ UNCHANGED dir_exists
    /\ UNCHANGED stageVars

(***************************************************************************)
(* Specifications.                                                         *)
(***************************************************************************)
Init == StageInit /\ OrchIdle

Next == StageCreate \/ StageStripe \/ StageFlush

\* one stage call on a small raster
Spec == Init /\ [][Next]_vars

InitOrch == OrchInit /\ StageIdle

NextOrch == MainOpen \/ MainEntry \/ MainRerun

\* main(), run after run
SpecOrch == InitOrch /\ [][NextOrch]_vars

(***************************************************************************)
(* Properties of the stage call (specification Spec).                      *)
(***************************************************************************)
Cells == {c \in (0..(rows - 1)) \X (0..(cols - 1)) : out_file.exists}

Written(c) == out_file.data[c[1]][c[2]] # Unwritten

OutAt(c) == out_file.data[c[1]][c[2]]

\* rows of the write window of the k-th stripe done
Window(k) ==
    plans[k].write_start .. (plans[k].write_start + plans[k].write_count - 1)

\* C1: the write windows of the stripe loop (write_start = 0, B, 2B, ... < R,
\* write_count = min(B, R - write_start)) partition [0, R): each window
\* starts where the one before ended, none is empty, at the end of the loop
\* every row lies in exactly one window and the last window ends at R; and
\* WriteArray has then covered every row exactly once.
C1_WriteWindowsPartition ==
    /\ \A k \in 1..Len(plans) :
        /\ plans[k].write_count >= 1
        /\ plans[k].write_start =
             IF k = 1 THEN 0
             ELSE plans[k - 1].write_start + plans[k - 1].write_count
        /\ plans[k].write_start + plans[k].write_count <= rows
    /\ spc = "returned" =>
        /\ \A i \in 0..(rows - 1) :
             Cardinality({k \in 1..Len(plans) : i \in Window(k)}) = 1
        /\ plans[Len(plans)].write_start + plans[Len(plans)].write_count = rows
        /\ \A i \in 0..(rows - 1) : nwrites[i] = 1

\* a finished loop of several stripes whose last stripe is shorter than block
C1_Witness ==
    /\ spc = "returned"
    /\ Len(plans) >= 2
    /\ plans[Len(plans)].write_count < block

\* the NoData value of the stage's output band
StageNoData == IF stage = "pisos" THEN Fin(PISOS_NODATA) ELSE NODATA

\* C2: in each in-house derivative, every pixel whose source elevation is
\* the NoData sentinel -9999 is written as the derivative's NoData value (0
\* for the ecological zones, -9999 for curvature, TPI and TWI), whatever its
\* neighbours hold and whichever stripe it falls in.
C2_NoDataInNoDataOut ==
    \A c \in Cells :
        (Written(c) /\ FEq(dem[c[1]][c[2]], NODATA)) => OutAt(c) = StageNoData

\* a finished multi-stripe output with a NoData pixel next to a valid one
C2_Witness ==
    /\ spc = "returned"
    /\ Len(plans) >= 2
    /\ \E c \in Cells :
        /\ c[1] + 1 < rows
        /\ FEq(dem[c[1]][c[2]], NODATA)
        /\ dem[c[1] + 1][c[2]] = Fin(1)
        /\ OutAt(c) = StageNoData

C13_OutputGeometryIsReference ==
    out_file.exists =>
        /\ out_file.hdr.xsize = cols
        /\ out_file.hdr.ysize = rows
        /\ out_file.hdr.gt = georef.gt
        /\ out_file.hdr.proj = georef.proj
        /\ DOMAIN out_file.data = 0..(rows - 1)
        /\ \A i \in 0..(rows - 1) : DOMAIN out_file.data[i] = 0..(cols - 1)

\* a closed output, written in several stripes, of a raster that is not
\* square
C13_Witness ==
    /\ spc = "returned"
    /\ out_file.flushed
    /\ Len(plans) >= 2
    /\ rows # cols
    /\ out_file.hdr.xsize = cols
    /\ out_file.hdr.gt = georef.gt

\* C14: wherever the slope read is at or below 0.1 degrees (0 degrees and
\* negative values included) the TWI formula is evaluated at exactly the
\* 0.1 degree floor, whose tangent is strictly positive, so the TWI written
\* at a pixel of valid elevation is the finite number ln(cell_size /
\* tan(0.1 degrees)): neither an infinity nor the NoData that replaces one.
C14_SlopeFloorKeepsTwiFinite ==
    stage = "twi" =>
        \A c \in Cells :
            LET s == slope_file.data[c[1]][c[2]]
                e == dem[c[1]][c[2]]
                low == \/ (s.k = "inf" /\ s.n < 0)
                       \/ (s.k = "fin" /\ 10 * s.n <= s.d)
            IN  (Written(c) /\ low /\ e # NODATA) =>
                    OutAt(c) = [k |-> "lnq", n |-> 1, d |-> CELL_SIZE]

\* a finished TWI raster with a 0 degree slope and a negative slope at pixels
\* of valid elevation
C14_Witness ==
    /\ stage = "twi"
    /\ spc = "returned"
    /\ \E c \in Cells :
        /\ slope_file.data[c[1]][c[2]] = Fin(0)
        /\ dem[c[1]][c[2]] = Fin(1)
        /\ IsFinite(OutAt(c)) /\ OutAt(c) # NODATA
    /\ \E c \in Cells :
        /\ slope_file.data[c[1]][c[2]] = NODATA
        /\ dem[c[1]][c[2]] = Fin(0)
        /\ IsFinite(OutAt(c)) /\ OutAt(c) # NODATA

\* the radius of the stage's kernel
KernelRadius == IF stage = "tpi" THEN radius ELSE 1

C17_SequentialStripes ==
    LET n == Len(ops)
        writes == {i \in 1..n : ops[i].op = "WriteArray"}
    IN  /\ out_file.exists <=> (n >= 1)
        /\ \A i \in 1..n : (ops[i].op = "Create") <=> (i = 1)
        /\ \A i \in 2..n :
             /\ ops[i].op = "ReadAsArray" =>
                   ops[i - 1].op \in {"Create", "WriteArray"}
             /\ ops[i].op = "WriteArray" => ops[i - 1].op = "ReadAsArray"
             /\ ops[i].op = "FlushCache" =>
                   /\ i = n
                   /\ ops[i - 1].op = "WriteArray"
                   /\ ops[i - 1].y + ops[i - 1].n = rows
                   /\ \A r \in 0..(rows - 1) : nwrites[r] = 1
        /\ \A i \in writes :
             /\ ops[i].n >= 1
             /\ ops[i].y = IF i = 3 THEN 0 ELSE ops[i - 2].y + ops[i - 2].n
             /\ \A j \in writes : j < i => ops[j].y < ops[i].y
        /\ \A r \in DOMAIN nwrites : nwrites[r] <= 1
        /\ \A r \in DOMAIN nwrites :
             (nwrites[r] = 1) <=>
                 (\E i \in writes : r \in ops[i].y..(ops[i].y + ops[i].n - 1))
        /\ out_file.flushed <=> (n >= 1 /\ ops[n].op = "FlushCache")
        /\ spc = "returned" <=> out_file.flushed

\* a closed output written in three or more stripes of a stage with a halo
C17_Witness ==
    /\ spc = "returned"
    /\ stage \in {"curvatura", "tpi"}
    /\ Len(ops) >= 8
    /\ ops[Len(ops)].op = "FlushCache"
    /\ ops[Len(ops) - 1].op = "WriteArray"
    /\ ops[Len(ops) - 1].y > ops[Len(ops) - 3].y

\* C18: after trim_top rows are cut from the top and trim_bottom rows from
\* the bottom of the block read, the stripe handed to the writer has exactly
\* write_count = min(B, R - y0) rows and is never empty, for every stripe:
\* the first (trim_top = 0), the last (trim_bottom = 0) and those between.
C18_TrimmedLengthIsWriteCount ==
    \A k \in 1..Len(plans) :
        LET p == plans[k] IN
        /\ p.write_count = Min(block, rows - p.write_start)
        /\ p.written = p.write_count
        /\ p.written >= 1
        /\ stage \in {"curvatura", "tpi"} =>
              TrimLen(p.read_end - p.read_start, p.trim_top, p.trim_bot)
                  = p.write_count

\* a finished halo stage whose first stripe lost rows at the bottom only and
\* whose last stripe lost rows at the top only
C18_Witness ==
    /\ spc = "returned"
    /\ stage \in {"curvatura", "tpi"}
    /\ Len(plans) >= 3
    /\ plans[1].trim_top = 0 /\ plans[1].trim_bot > 0
    /\ plans[2].trim_top > 0 /\ plans[2].trim_bot > 0
    /\ plans[Len(plans)].trim_top > 0 /\ plans[Len(plans)].trim_bot = 0
    /\ \A k \in 1..Len(plans) : plans[k].written = plans[k].write_count

\* C19: the halo of each stage's read window is at least the radius of the
\* stage's kernel: 1 for curvature (3x3 kernel), the configured radius r for
\* TPI, and 0 for the ecological zones and TWI, which have no kernel and read
\* exactly the rows they write (trim_top = trim_bottom = 0).  So the window
\* read holds every row of the raster the kernel reaches from the stripe.
C19_HaloCoversKernel ==
    LET kernel == CASE stage = "curvatura" -> CurvKernel
                    [] stage = "tpi" /\ radius >= 0 -> TpiKernel(radius)
                    [] OTHER -> [o \in {} |-> Fin(0)]
        used   == {o \in DOMAIN kernel : kernel[o].n # 0}
        reach  == IF used = {} THEN 0
                  ELSE CHOOSE m \in 0..(MaxRadius + 1) :
                         /\ \E o \in used : Abs(o[1]) = m
                         /\ \A o \in used : Abs(o[1]) <= m
    IN  (stage \in Stages /\ radius >= 0) =>
        /\ Pad >= reach
        /\ stage = "curvatura" => Pad = 1 /\ reach = 1
        /\ stage = "tpi" => Pad = radius
        /\ (stage = "tpi" /\ radius >= 1) => reach = radius
        /\ stage \in {"pisos", "twi"} => Pad = 0
        /\ \A k \in 1..Len(plans) :
             LET p == plans[k] IN
             /\ p.read_start <= Max(p.write_start - reach, 0)
             /\ p.read_end >= Min(p.write_start + p.write_count + reach, rows)
             /\ stage \in {"pisos", "twi"} =>
                   /\ p.read_start = p.write_start
                   /\ p.read_end = p.write_start + p.write_count
                   /\ p.trim_top = 0
                   /\ p.trim_bot = 0

\* a TPI of radius 2 with a stripe whose window holds the full halo on both
\* sides
C19_Witness ==
    /\ stage = "tpi"
    /\ radius = 2
    /\ \E k \in 1..Len(plans) :
        /\ plans[k].trim_top = 2
        /\ plans[k].trim_bot = 2

\* C20: for every stripe and every halo H >= 0, also H larger than the
\* stripe height or than the whole raster, the window read is clipped to the
\* raster, 0 <= read_start < read_end <= R, and the band is read nowhere
\* else; the clipping is not an error: the stage goes on to write the stripe
\* and returns.
C20_ReadWindowClipped ==
    /\ \A k \in 1..Len(plans) :
         /\ 0 <= plans[k].read_start
         /\ plans[k].read_start < plans[k].read_end
         /\ plans[k].read_end <= rows
    /\ \A i \in 1..Len(ops) :
         (ops[i].op = "ReadAsArray" /\ Pad >= 0) =>
             /\ 0 <= ops[i].y
             /\ ops[i].n >= 1
             /\ ops[i].y + ops[i].n <= rows
    /\ (stage \in Stages /\ Pad >= 0 /\ out_file.exists) =>
         /\ spc # "raised"
         /\ exc = "none"

\* a finished stage whose halo exceeds the stripe height and the raster, its
\* window cut at both ends
C20_Witness ==
    /\ spc = "returned"
    /\ Pad > block
    /\ Pad >= rows
    /\ Len(plans) >= 2
    /\ \A k \in 1..Len(plans) :
         plans[k].read_start = 0 /\ plans[k].read_end = rows

\* C21: in every stripe the number of rows read, read_end - read_start, is
\* at most B + 2*H (B the stripe height, H the stage's halo), so the block a
\* stage holds of one stripe never has more than width * (B + 2*H) source
\* cells.
C21_RowsReadBounded ==
    (stage \in Stages /\ Pad >= 0) =>
        /\ \A k \in 1..Len(plans) :
             /\ plans[k].read_end - plans[k].read_start <= block + 2 * Pad
             /\ cols * (plans[k].read_end - plans[k].read_start)
                    <= cols * (block + 2 * Pad)
        /\ \A i \in 1..Len(ops) :
             ops[i].op = "ReadAsArray" => ops[i].n <= block + 2 * Pad

\* a stripe in the middle of a raster of more rows, read with its full halo
\* above and below: exactly B + 2*H rows
C21_Witness ==
    /\ Pad >= 1
    /\ \E k \in 1..Len(plans) :
        /\ plans[k].read_end - plans[k].read_start = block + 2 * Pad
        /\ plans[k].read_end - plans[k].read_start < rows

\* C23: the curvature written at a pixel whose centre and four edge
\* neighbours (north, south, west, east, the raster's edge cells repeated
\* outwards) are valid elevations is (north + south + west + east -
\* 4*centre) / cell_size^2, whatever the diagonal neighbours hold, NoData
\* included; so a pixel strictly lower than the mean of its four edge
\* neighbours (concave) gets a strictly positive value and one strictly
\* higher (convex) a strictly negative value.
C23_CurvatureIsLaplacian ==
    stage = "curvatura" =>
        \A c \in Cells :
            LET i == c[1]
                j == c[2]
                north  == dem[Max(i - 1, 0)][j]
                south  == dem[Min(i + 1, rows - 1)][j]
                west   == dem[i][Max(j - 1, 0)]
                east   == dem[i][Min(j + 1, cols - 1)]
                centre == dem[i][j]
                valid  == \A v \in {north, south, west, east, centre} :
                              v.k = "fin" /\ v # NODATA /\ v.d = 1
                sum4   == north.n + south.n + west.n + east.n
            IN  (Written(c) /\ valid) =>
                  /\ OutAt(c) = Rat(sum4 - 4 * centre.n, CELL_SIZE * CELL_SIZE)
                  /\ 4 * centre.n < sum4 => OutAt(c).n > 0
                  /\ 4 * centre.n > sum4 => OutAt(c).n < 0

\* a finished curvature with a pit (positive), a peak (negative) and a pixel
\* with a NoData diagonal neighbour that still holds its Laplacian
C23_Witness ==
    /\ stage = "curvatura"
    /\ spc = "returned"
    /\ rows >= 3
    /\ cols >= 3
    /\ dem[1][1] = NODATA
    /\ OutAt(<<2, 2>>) # NODATA
    /\ OutAt(<<1, 2>>) = NODATA
    /\ \E c \in Cells :
        /\ c[1] >= 1 /\ c[1] <= rows - 2 /\ c[2] >= 1 /\ c[2] <= cols - 2
        /\ \A o \in {<<-1, 0>>, <<1, 0>>, <<0, -1>>, <<0, 1>>} :
              FLt(dem[c[1]][c[2]], dem[c[1] + o[1]][c[2] + o[2]])
        /\ dem[c[1]][c[2]] # NODATA
        /\ OutAt(c).k = "fin" /\ OutAt(c).n > 0
    /\ \E c \in Cells :
        /\ c[1] >= 1 /\ c[1] <= rows - 2 /\ c[2] >= 1 /\ c[2] <= cols - 2
        /\ \A o \in {<<-1, 0>>, <<1, 0>>, <<0, -1>>, <<0, 1>>} :
              /\ FLt(dem[c[1] + o[1]][c[2] + o[2]], dem[c[1]][c[2]])
              /\ dem[c[1] + o[1]][c[2] + o[2]] # NODATA
        /\ OutAt(c).k = "fin" /\ OutAt(c).n < 0

\* the cells of the raster at the offsets offs from pixel (i, j), the
\* raster's edge cells repeated outwards
NeighbourCells(offs, i, j) ==
    {<<o, dem[Clamp(i + o[1], 0, rows - 1)][Clamp(j + o[2], 0, cols - 1)]>> :
        o \in offs}

\* the sum of the elevations (whole metres) of a set of <<offset, cell>>
RECURSIVE ElevationSum(_)
ElevationSum(cells) ==
    IF cells = {} THEN 0
    ELSE LET x == CHOOSE x \in cells : TRUE
         IN  x[2].n + ElevationSum(cells \ {x})

\* C24: for every radius r >= 1 the TPI kernel is the (2r+1) x (2r+1) window
\* with weight 1/count at exactly the cells at Euclidean distance d, 0 < d <=
\* r, from the centre and weight 0 at the centre and everywhere else; count
\* is positive and the weights sum to 1; the TPI written at a pixel whose
\* centre and ring cells are valid is the centre elevation minus the mean of
\* the ring.  For r = 0 the ring is empty, count is 0 and the weights are
\* not defined.
C24_TpiIsCentreMinusRingMean ==
    (stage = "tpi" /\ radius >= 0) =>
        LET K     == TpiKernel(radius)
            ring  == {o \in (-radius..radius) \X (-radius..radius) :
                        /\ o[1] * o[1] + o[2] * o[2] > 0
                        /\ o[1] * o[1] + o[2] * o[2] <= radius * radius}
            count == Cardinality(ring)
        IN  /\ DOMAIN K = (-radius..radius) \X (-radius..radius)
            /\ TpiCount(radius) = count
            /\ radius = 0 => (count = 0 /\ \A o \in DOMAIN K : IsNan(K[o]))
            /\ radius >= 1 =>
                  /\ count > 0
                  /\ \A o \in DOMAIN K :
                        K[o] = IF o \in ring THEN Rat(1, count) ELSE Fin(0)
                  /\ K[<<0, 0>>] = Fin(0)
                  /\ FMul(Fin(Cardinality({o \in DOMAIN K : K[o] # Fin(0)})),
                          Rat(1, count)) = Fin(1)
                  /\ spc = "returned" =>
                        \A c \in Cells :
                            LET near == NeighbourCells(ring, c[1], c[2])
                                e == dem[c[1]][c[2]]
                                Valid(v) == v.k = "fin" /\ v # NODATA /\ v.d = 1
                            IN  (Valid(e) /\ \A x \in near : Valid(x[2])) =>
                                  OutAt(c) = Rat(e.n * count - ElevationSum(near),
                                                 count)

\* a finished TPI of radius 2 on the rough surface, at a pixel whose twelve
\* ring cells are valid and whose elevation differs from their mean
C24_Witness ==
    /\ stage = "tpi"
    /\ radius = 2
    /\ spc = "returned"
    /\ rows >= 5
    /\ cols >= 5
    /\ dem[1][1] = NODATA
    /\ TpiCount(radius) = 12
    /\ OutAt(<<3, 3>>).k = "fin"
    /\ OutAt(<<3, 3>>) \notin {NODATA, Fin(0)}

\* C25: curvature and TPI do no renormalisation over the valid cells: a
\* pixel of valid elevation with at least one NoData cell among its kernel
\* neighbours (the four edge neighbours for curvature, the cells at distance
\* 0 < d <= r for TPI, the raster's edge cells repeated outwards) is
\* written as NoData, -9999, and not as a value computed from the valid
\* neighbours that remain.
C25_MissingNeighbourGivesNoData ==
    (stage \in {"curvatura", "tpi"} /\ radius >= 0) =>
        LET r    == KernelRadius
            ring == {o \in (-r..r) \X (-r..r) :
                       /\ o[1] * o[1] + o[2] * o[2] > 0
                       /\ o[1] * o[1] + o[2] * o[2] <= r * r}
        IN  \A c \in Cells :
                (/\ Written(c)
                 /\ dem[c[1]][c[2]] # NODATA
                 /\ \E x \in NeighbourCells(ring, c[1], c[2]) : x[2] = NODATA)
                    => OutAt(c) = NODATA

\* a finished TPI of radius 2 on the rough surface: the pixel diagonal to the
\* NoData cell, with eleven valid ring cells, is NoData, and a pixel further
\* away is not
C25_Witness ==
    /\ stage = "tpi"
    /\ radius = 2
    /\ spc = "returned"
    /\ rows >= 5
    /\ cols >= 5
    /\ dem[1][1] = NODATA
    /\ dem[2][2] # NODATA
    /\ Cardinality({x \in NeighbourCells(Offsets(2), 2, 2) : x[2] = NODATA}) = 1
    /\ OutAt(<<2, 2>>) = NODATA
    /\ OutAt(<<3, 3>>) # NODATA

C29_TwiMasksOnElevationOnly ==
    stage = "twi" =>
        \A c \in Cells :
            LET s == slope_file.data[c[1]][c[2]]
                e == dem[c[1]][c[2]]
                low == \/ (s.k = "inf" /\ s.n < 0)
                       \/ (s.k = "fin" /\ 10 * s.n <= s.d)
                steep == s.k = "fin" /\ 10 * s.n > s.d /\ s.n <= 90 * s.d
                floor == [k |-> "lnq", n |-> 1, d |-> CELL_SIZE]
            IN  Written(c) =>
                  /\ e = NODATA => OutAt(c) = NODATA
                  /\ (e # NODATA /\ low) => OutAt(c) = floor
                  /\ (e # NODATA /\ steep) =>
                        OutAt(c) = [k |-> "lnq", n |-> (10 * s.n) \div s.d,
                                    d |-> CELL_SIZE]
                  /\ (e # NODATA /\ ~low /\ ~steep) => OutAt(c) = NODATA
                  /\ (e # NODATA /\ s = NODATA) =>
                        \A c0 \in Cells :
                            (/\ Written(c0)
                             /\ dem[c0[1]][c0[2]] # NODATA
                             /\ slope_file.data[c0[1]][c0[2]] = Fin(0)) =>
                                OutAt(c) = OutAt(c0)

\* a finished TWI raster where a slope of -9999 under an infinite elevation
\* and a slope of 0 degrees under the elevation 1 got the same finite value,
\* which is not NoData
C29_Witness ==
    /\ stage = "twi"
    /\ spc = "returned"
    /\ \E c \in Cells : \E c0 \in Cells :
        /\ slope_file.data[c[1]][c[2]] = NODATA
        /\ dem[c[1]][c[2]] = PosInf
        /\ slope_file.data[c0[1]][c0[2]] = Fin(0)
        /\ dem[c0[1]][c0[2]] = Fin(1)
        /\ OutAt(c) = OutAt(c0)
        /\ OutAt(c).k = "lnq"
        /\ OutAt(c) # NODATA

\* C3 (as claimed): no NaN and no infinity is ever written to a curvature,
\* TPI or TWI output, also when the source block holds non-finite values.
C3_NoNonFiniteWritten ==
    stage \in {"curvatura", "tpi", "twi"} =>
        \A c \in Cells : Written(c) => IsFinite(OutAt(c))

\* the derivative computed once over the whole raster, rows replicated at the
\* raster's edges only
WholeGrid ==
    CASE stage = "curvatura" ->
           LET curv == Convolve(NanMasked(dem), rows, cols, CurvKernel, 1)
           IN  [i \in 0..(rows - 1) |->
                  [j \in 0..(cols - 1) |-> CurvClean(curv[i][j])]]
      [] stage = "tpi" ->
           LET elev == NanMasked(dem)
               mean == Convolve(elev, rows, cols, TpiKernel(radius), radius)
           IN  [i \in 0..(rows - 1) |->
                  [j \in 0..(cols - 1) |->
                     TpiClean(FSub(elev[i][j], mean[i][j]),
                              FEq(dem[i][j], NODATA))]]

\* C4: the striped computation is seam-free: every pixel written by the
\* halo-read / convolve / trim loop of curvature (r = 1) and TPI (r = radius,
\* also r > B and r >= R) equals the value of the same kernel applied once
\* to the whole grid with nearest-edge replication.
C4_SeamFree ==
    (stage \in {"curvatura", "tpi"} /\ radius >= 0) =>
        \A c \in Cells : Written(c) => OutAt(c) = WholeGrid[c[1]][c[2]]

\* a finished TPI of several stripes whose radius exceeds the stripe height
\* and reaches past the raster, over a grid that is not constant
C4_Witness ==
    /\ spc = "returned"
    /\ stage = "tpi"
    /\ radius > block
    /\ radius >= rows
    /\ Len(plans) >= 2
    /\ dem[0][0] = Fin(1)
    /\ dem[1][0] = Fin(0)
    /\ OutAt(<<0, 0>>) # OutAt(<<1, 0>>)

\* C5: every stripe descriptor has read_start = max(y0 - H, 0) <= write_start,
\* read_end = min(y0 + B + H, R) >= write_start + write_count, trim_top =
\* write_start - read_start >= 0 and trim_bottom = read_end - (write_start +
\* write_count) >= 0.
C5_BlockPlanInvariant ==
    \A k \in 1..Len(plans) :
        LET p == plans[k] IN
        /\ p.read_start <= p.write_start
        /\ p.read_start >= 0
        /\ p.read_start >= p.write_start - Pad
        /\ p.read_end >= p.write_start + p.write_count
        /\ p.read_end <= rows
        /\ p.read_end <= p.write_start + block + Pad
        /\ p.trim_top = p.write_start - p.read_start
        /\ p.trim_top >= 0
        /\ p.trim_bot = p.read_end - (p.write_start + p.write_count)
        /\ p.trim_bot >= 0

\* a stripe in the middle of the raster, with halo rows above and below
C5_Witness ==
    \E k \in 1..Len(plans) :
        /\ plans[k].trim_top > 0
        /\ plans[k].trim_bot > 0
        /\ plans[k].read_end < rows

\* C8 (as claimed): when compute_twi is called and the slope output is
\* absent, the call ends with FileNotFoundError, before the TWI output is
\* created or any stripe is written.
C8_MissingSlopeIsFileNotFound ==
    (stage = "twi" /\ ~slope_file.exists /\ spc # "call") =>
        /\ spc = "raised"
        /\ exc = "FileNotFoundError"
        /\ ~out_file.exists
        /\ plans = <<>>

\* C9 (as claimed): a call with a negative radius is rejected before any
\* file is created or written.
C9_NegativeRadiusRejectedFirst ==
    (stage = "tpi" /\ radius < 0 /\ spc # "call") =>
        /\ spc = "raised"
        /\ ~out_file.exists

(***************************************************************************)
(* Properties of main() (specification SpecOrch).                          *)
(***************************************************************************)
Ended == opc \in {"done", "exited", "crashed"}

AllPresentAtStart ==
    opc # "idle" /\ \A n \in Names : files_start[n] # "absent"

\* C6: a second run without the force flag, after a run that reached its
\* summary and with all eight outputs still present, invokes no compute
\* stage: every entry it considers is skipped and no file is created or
\* rewritten.
C6_RerunIsPureSkip ==
    (run >= 2 /\ prev_done /\ ~force /\ AllPresentAtStart) =>
        /\ \A e \in 1..Len(Catalog) : log[e] \in {"none", "skip"}
        /\ computed = 0
        /\ files = files_start
        /\ opc = "done" => skipped = Len(Catalog)

\* such a second run, finished
C6_Witness ==
    /\ run >= 2
    /\ prev_done
    /\ ~force
    /\ AllPresentAtStart
    /\ opc = "done"
    /\ skipped = Len(Catalog)

\* C7 (as claimed): when the compute stage of an entry fails, main() still
\* goes on to attempt every later catalog entry.
C7_FailureDoesNotStopCatalog ==
    (Ended /\ \E e \in 1..Len(Catalog) : log[e] = "fail") =>
        \A e \in 1..Len(Catalog) : log[e] # "none"

\* C11: in every run the catalog entries are considered in the fixed order
\* slope, ruggedness, altitude copy, ecological zones, aspect, curvature, TPI,
\* TWI: what the run has considered so far is always an initial part of that
\* list, so no entry is considered twice, and when the TWI entry is
\* considered the slope entry has already been skipped or computed.
C11_FixedCatalogOrder ==
    LET order == << "pendiente", "rugosidad", "altitud", "pisos_ecologicos",
                    "aspecto", "curvatura", "tpi", "twi" >>
        At(n) == CHOOSE e \in 1..Len(order) : order[e] = n
    IN  opc # "idle" =>
        /\ Len(considered) <= Len(order)
        /\ \A k \in 1..Len(considered) : considered[k] = order[k]
        /\ \A k \in 1..Len(considered) : log[k] # "none"
        /\ (\E k \in 1..Len(considered) : considered[k] = "twi") =>
              /\ \E k \in 1..(Len(considered) - 1) :
                    considered[k] = "pendiente"
              /\ log[At("pendiente")] \in {"skip", "compute"}

\* a run that computed the slope and later invoked the TWI stage
C11_Witness ==
    /\ opc = "done"
    /\ Len(considered) = Len(Catalog)
    /\ log[1] = "compute"
    /\ log[Len(Catalog)] = "compute"

C27_PartialFileIsSkipped ==
    (opc # "idle" /\ ~force) =>
        \A e \in 1..Len(considered) :
            LET n == considered[e] IN
            /\ files_start[n] \in {"partial", "complete"} => log[e] = "skip"
            /\ files_start[n] = "partial" =>
                  /\ files[n] = "partial"
                  /\ n \notin written

\* a run without the force flag that reached its summary although the run
\* before was ended while writing an output, which is still unfinished
C27_Witness ==
    /\ run >= 2
    /\ ~force
    /\ ~prev_done
    /\ opc = "done"
    /\ \E e \in 1..Len(considered) :
        /\ files_start[considered[e]] = "partial"
        /\ log[e] = "skip"
        /\ files[considered[e]] = "partial"

\* C28: whenever the TWI stage is invoked there is a slope file at
\* pendiente.tif: the slope entry comes before the TWI entry and was either
\* skipped over a file that was there when the run started or computed in
\* this run; a slope computation that fails ends the run at that entry, and
\* no later entry is considered; with the force flag set the slope file the
\* TWI stage finds is the complete one this run has written.
C28_SlopeExistsWhenTwiInvoked ==
    LET At(n) == CHOOSE e \in 1..Len(Catalog) : Catalog[e] = n
        s == At("pendiente")
        t == At("twi")
    IN  opc # "idle" =>
        /\ (Len(considered) >= s /\ log[s] = "fail") =>
              /\ Len(considered) = s
              /\ opc = "crashed"
        /\ (Len(considered) >= t /\ log[t] \in {"compute", "fail"}) =>
              /\ s < t
              /\ files["pendiente"] # "absent"
              /\ log[s] \in {"skip", "compute"}
              /\ log[s] = "skip" =>
                    /\ files_start["pendiente"] # "absent"
                    /\ files["pendiente"] = files_start["pendiente"]
                    /\ ~force
              /\ log[s] = "compute" =>
                    /\ "pendiente" \in written
                    /\ files["pendiente"] = "complete"
              /\ force =>
                    /\ log[s] = "compute"
                    /\ "pendiente" \in written

\* a forced second run over outputs that were all there: the slope was
\* written again before the TWI stage ran
C28_Witness ==
    /\ run >= 2
    /\ force
    /\ files_start["pendiente"] # "absent"
    /\ files_start["twi"] # "absent"
    /\ Len(considered) = Len(Catalog)
    /\ log[1] = "compute"
    /\ log[Len(Catalog)] = "compute"
    /\ "pendiente" \in written

\* C30: while main() runs, after k catalog entries have been considered the
\* two counters add up to k: every entry that was skipped added one to
\* skipped and nothing to computed, every entry whose stage returned added
\* one to computed and nothing to skipped, and a run that reaches its summary
\* reports computed + skipped = 8.  (A stage that raises ends main() inside
\* its entry, before either counter is touched and without a summary.)
C30_CountersAddUp ==
    LET Count(what) ==
            Cardinality({e \in 1..Len(considered) : log[e] = what})
    IN  /\ opc \in {"open", "entry", "done"} =>
              computed + skipped = Len(considered)
        /\ opc # "idle" =>
              /\ computed = Count("compute")
              /\ skipped = Count("skip")
        /\ opc = "done" =>
              /\ Len(considered) = Len(Catalog)
              /\ computed + skipped = 8
        /\ (opc = "crashed" /\ Len(considered) >= 1) =>
              /\ log[Len(considered)] = "fail"
              /\ computed + skipped = Len(considered) - 1

\* a run that reached its summary after skipping some entries and computing
\* the others
C30_Witness ==
    /\ opc = "done"
    /\ computed >= 1
    /\ skipped >= 1
    /\ computed + skipped = Len(Catalog)
    /\ Len(considered) = 8

\* C10: when the input raster cannot be opened the run ends before the
\* output directory or any output file is created and before any compute
\* stage is invoked.
C10_UnreadableInputAbortsFirst ==
    (opc \notin {"idle", "open"} /\ ~dem_ok) =>
        /\ opc \in {"exited", "crashed"}
        /\ dir_exists = dir_start
        /\ files = files_start
        /\ computed = 0
        /\ skipped = 0
        /\ \A e \in 1..Len(Catalog) : log[e] = "none"

\* a run on a missing DEM that ended with no output directory
C10_Witness ==
    /\ opc \in {"exited", "crashed"}
    /\ ~dem_ok
    /\ ~dir_start
    /\ ~dir_exists

=============================================================================
